---- MODULE Spec2Model ----
(***************************************************************************)
(* Model of deadcode.py: the scan orchestrator CodeAnalyzer.analyze and    *)
(* the two language front ends PhpAnalyzer and PythonAnalyzer.             *)
(*                                                                         *)
(* Representation of text.  A file content is a sequence of tokens; each   *)
(* token is a string that is one of                                        *)
(*   - a word: a maximal run of \w characters (letters, digits, '_'),      *)
(*   - a blank: "\n" alone, or a maximal run of spaces,                    *)
(*   - one punctuation character.                                          *)
(* The concatenation of the tokens is the text the program reads.  The     *)
(* regular expressions of the source are translated to matchers over such  *)
(* sequences.  A literal of a pattern that is delimited in the pattern     *)
(* (by \b, \s+, or punctuation on both sides) is compared with a whole     *)
(* word; a literal that the pattern leaves open on one side is compared    *)
(* with the end, or the beginning, of a word.  Character offsets (the 200  *)
(* character window, the indentation of a line) are computed from the      *)
(* lengths of the tokens.                                                  *)
(***************************************************************************)
EXTENDS Integers, Sequences, FiniteSets, TLC

VARIABLES
    lang,          \* "php" | "python": which subclass of CodeAnalyzer runs
    directory,     \* self.directory: the components of the root path
    tree,          \* the files below the root, in os.walk order
    limit,         \* the limit argument of analyze(); 0 stands for None
    reuse,         \* whether the second run reuses the analyzer instance
    run,           \* 1 or 2: which call of analyze() is in progress
    pc,            \* position inside analyze()
    source_files,  \* get_files(for_analysis=True), as positions in tree
    test_files,    \* get_files(for_analysis=False), as positions in tree
    idx,           \* index of the next file of the loop in progress
    elements,      \* the local dict elements, in insertion order
    found_usage,   \* self.found_usage
    visited,       \* files handed to pool.map in this run, in order
    results,       \* the list analyze() returns (valid when pc = "done")
    first_results, \* what the first run returned (valid when run = 2)
    tasks,         \* the tasks of the pool.map call in progress
    snapshot       \* self.found_usage as pickled with those tasks

vars == <<lang, directory, tree, limit, reuse, run, pc, source_files,
          test_files, idx, elements, found_usage, visited, results,
          first_results, tasks, snapshot>>

\* what a run is given, and the two lists analyze() computes first
input == <<lang, directory, tree, limit>>
files == <<source_files, test_files>>

\* the state of the worker pool
pool == <<tasks, snapshot>>

----------------------------------------------------------------------------
(* Bounds of the model *)

MaxLimit == 2
MaxBody == 2

----------------------------------------------------------------------------
(* Strings and tokens *)

NoClass == "<None>"

Blanks == {"\n", " ", "  ", "    ", "        ", "            "}

Punct == {"(", ")", "{", "}", "[", "]", ",", ";", ".", ":", "$", "-", ">",
          "<", "?", "@", "#", "=", "/", "*", "\"", "'"}

IsBlank(t) == t \in Blanks

IsWord(t) == t \notin Blanks /\ t \notin Punct

\* str.__contains__: p in s
StrContains(s, p) ==
    \E i \in 1..(Len(s) - Len(p) + 1) : SubSeq(s, i, i + Len(p) - 1) = p

StrStartsWith(s, p) == Len(s) >= Len(p) /\ SubSeq(s, 1, Len(p)) = p

StrEndsWith(s, p) ==
    Len(s) >= Len(p) /\ SubSeq(s, Len(s) - Len(p) + 1, Len(s)) = p

\* Number of characters of the tokens c[1..n]: the character offset at which
\* token n+1 starts.
RECURSIVE CharPos(_, _)
CharPos(c, n) == IF n <= 0 THEN 0 ELSE CharPos(c, n - 1) + Len(c[n])

\* \s* from token i: the index of the first token that is not a blank.
RECURSIVE SkipBlanks(_, _)
SkipBlanks(c, i) ==
    IF i <= Len(c) /\ IsBlank(c[i]) THEN SkipBlanks(c, i + 1) ELSE i

\* Whether token i exists and equals t.
TokIs(c, i, t) == i >= 1 /\ i <= Len(c) /\ c[i] = t

TokWord(c, i) == i >= 1 /\ i <= Len(c) /\ IsWord(c[i])

\* The tokens lit occur in c from token i on.
LitAt(c, i, lit) ==
    /\ i >= 1
    /\ i + Len(lit) - 1 <= Len(c)
    /\ \A k \in 1..Len(lit) : c[i + k - 1] = lit[k]

\* the least member of S that is >= i, 0 when there is none
NextIn(S, i) ==
    IF \E j \in S : j >= i
    THEN CHOOSE j \in S : j >= i /\ \A k \in S : k >= i => j <= k
    ELSE 0

UpperCase == <<"A","B","C","D","E","F","G","H","I","J","K","L","M",
               "N","O","P","Q","R","S","T","U","V","W","X","Y","Z">>
LowerCase == <<"a","b","c","d","e","f","g","h","i","j","k","l","m",
               "n","o","p","q","r","s","t","u","v","w","x","y","z">>

LowerChar(ch) ==
    IF \E k \in 1..26 : UpperCase[k] = ch
    THEN LowerCase[CHOOSE k \in 1..26 : UpperCase[k] = ch] ELSE ch

\* str.lower()
RECURSIVE StrLower(_)
StrLower(s) ==
    IF Len(s) = 0 THEN ""
    ELSE LowerChar(SubSeq(s, 1, 1)) \o StrLower(SubSeq(s, 2, Len(s)))

RECURSIVE FilterIdx(_, _, _)
\* ascending sequence of the members of S that are >= i and <= n
FilterIdx(S, i, n) ==
    IF i > n THEN <<>>
    ELSE (IF i \in S THEN <<i>> ELSE <<>>) \o FilterIdx(S, i + 1, n)

InSeq(x, s) == \E k \in 1..Len(s) : s[k] = x

RECURSIVE Repeat(_, _)
Repeat(t, n) == IF n <= 0 THEN <<>> ELSE <<t>> \o Repeat(t, n - 1)

RECURSIVE Flatten(_)
Flatten(ss) == IF ss = <<>> THEN <<>> ELSE Head(ss) \o Flatten(Tail(ss))

RECURSIVE JoinStr(_, _)
JoinStr(parts, sep) ==
    IF parts = <<>> THEN ""
    ELSE IF Len(parts) = 1 THEN parts[1]
    ELSE parts[1] \o sep \o JoinStr(Tail(parts), sep)

----------------------------------------------------------------------------
(* PhpAnalyzer: extraction *)

PHP_FALSE_POSITIVE_PATTERNS ==
    {"Listener", "processNode", "Subscriber", "EventSubscriber", "Kernel",
     "onAuthenticationFailure", "onAuthenticationSuccess",
     "RequirementCollection", "getHelpHtml", "Command", "Handler",
     "onLogout", "__invoke", "teardown", "__toString", "getNodeType"}

\* r"function\s+(\w+)\s*\(" matched with "function" at token i.
PhpFuncNameIdx(c, i) == SkipBlanks(c, i + 1)

PhpFuncParenIdx(c, i) == SkipBlanks(c, PhpFuncNameIdx(c, i) + 1)

PhpFuncMatchAt(c, i) ==
    /\ TokIs(c, i, "function")
    /\ PhpFuncNameIdx(c, i) > i + 1
    /\ TokWord(c, PhpFuncNameIdx(c, i))
    /\ TokIs(c, PhpFuncParenIdx(c, i), "(")

\* count_function_lines(content, start_pos), start_pos being the offset of
\* token pos.
RECURSIVE PhpCountFrom(_, _, _, _)
PhpCountFrom(c, pos, bracket_count, line_count) ==
    IF pos > Len(c) THEN line_count
    ELSE IF c[pos] = "{"
         THEN PhpCountFrom(c, pos + 1, bracket_count + 1, line_count)
    ELSE IF c[pos] = "}"
         THEN IF bracket_count - 1 = 0 THEN line_count
              ELSE PhpCountFrom(c, pos + 1, bracket_count - 1, line_count)
    ELSE IF c[pos] = "\n"
         THEN PhpCountFrom(c, pos + 1, bracket_count, line_count + 1)
    ELSE PhpCountFrom(c, pos + 1, bracket_count, line_count)

PhpCountFunctionLines(c, pos) == PhpCountFrom(c, pos, 0, 1)

\* re.sub(r"/\*.*?\*/", "", content_before, flags=re.DOTALL)
PhpBlockCloseIdx(c, i) ==
    LET closes == {j \in (i + 2)..(Len(c) - 1) : c[j] = "*" /\ c[j + 1] = "/"}
    IN  IF closes = {} THEN 0
        ELSE CHOOSE j \in closes : \A k \in closes : j <= k

RECURSIVE PhpStripBlock(_, _)
PhpStripBlock(c, i) ==
    LET m == NextIn({k \in 1..Len(c) :
                       /\ TokIs(c, k, "/") /\ TokIs(c, k + 1, "*")
                       /\ PhpBlockCloseIdx(c, k) # 0}, i)
    IN  IF m = 0 THEN SubSeq(c, i, Len(c))
        ELSE SubSeq(c, i, m - 1) \o PhpStripBlock(c, PhpBlockCloseIdx(c, m) + 2)

\* re.sub(r"//.*?\n", "", content_before)
PhpLineEndIdx(c, i) ==
    LET nls == {j \in (i + 2)..Len(c) : c[j] = "\n"}
    IN  IF nls = {} THEN 0 ELSE CHOOSE j \in nls : \A k \in nls : j <= k

RECURSIVE PhpStripLine(_, _)
PhpStripLine(c, i) ==
    LET m == NextIn({k \in 1..Len(c) :
                       /\ TokIs(c, k, "/") /\ TokIs(c, k + 1, "/")
                       /\ PhpLineEndIdx(c, k) # 0}, i)
    IN  IF m = 0 THEN SubSeq(c, i, Len(c))
        ELSE SubSeq(c, i, m - 1) \o PhpStripLine(c, PhpLineEndIdx(c, m) + 1)

\* Removing a comment joins the text on both sides of it: two words that
\* become adjacent are one word.
RECURSIVE MergeWords(_)
MergeWords(c) ==
    LET m == NextIn({k \in 1..(Len(c) - 1) : IsWord(c[k]) /\ IsWord(c[k + 1])}, 1)
    IN  IF m = 0 THEN c
        ELSE MergeWords(SubSeq(c, 1, m - 1) \o <<c[m] \o c[m + 1]>>
                        \o SubSeq(c, m + 2, Len(c)))

\* class_pattern of find_class_name matched from token i:
\* (?:class|interface|abstract\s+class|trait|enum)\s+(\w+)
\* (?:\s*:\s*\w+|\s+extends|\s+implements|\s*\{)
PhpClassKwEnd(c, i) ==
    IF i < 1 \/ i > Len(c) THEN 0
    ELSE IF c[i] \in {"class", "interface", "trait", "enum"} THEN i
    ELSE IF c[i] = "abstract" /\ SkipBlanks(c, i + 1) > i + 1
            /\ TokIs(c, SkipBlanks(c, i + 1), "class")
         THEN SkipBlanks(c, i + 1)
    ELSE 0

PhpClassNameIdx(c, i) == SkipBlanks(c, PhpClassKwEnd(c, i) + 1)

\* index of the last token of the match, 0 when there is no match at i
PhpClassMatchEnd(c, i) ==
    LET kw == PhpClassKwEnd(c, i)
        n  == PhpClassNameIdx(c, i)
        t  == SkipBlanks(c, n + 1)
    IN  IF kw = 0 \/ n = kw + 1 \/ ~TokWord(c, n) THEN 0
        ELSE IF TokIs(c, t, ":") /\ TokWord(c, SkipBlanks(c, t + 1))
             THEN SkipBlanks(c, t + 1)
        ELSE IF t > n + 1 /\ TokIs(c, t, "extends") THEN t
        ELSE IF t > n + 1 /\ TokIs(c, t, "implements") THEN t
        ELSE IF TokIs(c, t, "{") THEN t
        ELSE 0

\* class_matches[-1].group(1) over re.finditer, None when there is no match;
\* S is the set of tokens at which the pattern matches
RECURSIVE PhpLastClass(_, _, _, _)
PhpLastClass(c, S, i, last) ==
    IF NextIn(S, i) = 0 THEN last
    ELSE PhpLastClass(c, S, PhpClassMatchEnd(c, NextIn(S, i)) + 1,
                      c[PhpClassNameIdx(c, NextIn(S, i))])

PhpClassNameIn(c) ==
    PhpLastClass(c, {i \in 1..Len(c) : PhpClassMatchEnd(c, i) # 0}, 1, NoClass)

\* find_class_name(content, position), position being the offset of token i
PhpFindClassName(c, i) ==
    PhpClassNameIn(
        MergeWords(PhpStripLine(PhpStripBlock(SubSeq(c, 1, i - 1), 1), 1)))

\* rf"class\s+{class_name}\s+implements\s+([\w\s,]+)" matched from token i:
\* the index of the token "implements", 0 when there is no match.
RECURSIVE ListRunEnd(_, _)
\* [\w\s,]* from token i: index of the first token outside the class
ListRunEnd(c, i) ==
    IF i <= Len(c) /\ (IsWord(c[i]) \/ IsBlank(c[i]) \/ c[i] = ",")
    THEN ListRunEnd(c, i + 1) ELSE i

PhpImplementsIdx(c, i, class_name) ==
    LET n == SkipBlanks(c, i + 1)
        m == SkipBlanks(c, n + 1)
        g == SkipBlanks(c, m + 1)
    IN  IF /\ TokIs(c, i, "class")
           /\ n > i + 1 /\ TokIs(c, n, class_name)
           /\ m > n + 1 /\ TokIs(c, m, "implements")
           /\ g > m + 1
           \* \s+ takes one character and ([\w\s,]+) one more at least
           /\ (ListRunEnd(c, g) > g \/ CharPos(c, g - 1) - CharPos(c, m) >= 2)
        THEN m ELSE 0

\* implements_match.group(1).split(","), each piece stripped: a sequence
\* of token sequences.
RECURSIVE StripBlanks(_)
StripBlanks(p) ==
    IF p = <<>> THEN p
    ELSE IF IsBlank(p[1]) THEN StripBlanks(Tail(p))
    ELSE IF IsBlank(p[Len(p)]) THEN StripBlanks(SubSeq(p, 1, Len(p) - 1))
    ELSE p

RECURSIVE SplitComma(_, _)
SplitComma(p, cur) ==
    IF p = <<>> THEN <<StripBlanks(cur)>>
    ELSE IF p[1] = "," THEN <<StripBlanks(cur)>> \o SplitComma(Tail(p), <<>>)
    ELSE SplitComma(Tail(p), Append(cur, p[1]))

\* re.search(implements_pattern, content): the interfaces of the leftmost
\* match, <<>> when the pattern does not match.
PhpInterfaces(c, class_name) ==
    LET starts == {i \in 1..Len(c) : PhpImplementsIdx(c, i, class_name) # 0}
    IN  IF starts = {} THEN <<>>
        ELSE LET i == CHOOSE k \in starts : \A l \in starts : k <= l
                 g == SkipBlanks(c, PhpImplementsIdx(c, i, class_name) + 1)
             IN  SplitComma(SubSeq(c, g, ListRunEnd(c, g) - 1), <<>>)

\* rf"function\s+{method_name}\s*\(" somewhere in body
PhpDeclaresMethod(body, method_name) ==
    \E i \in 1..Len(body) :
        /\ PhpFuncMatchAt(body, i)
        /\ body[PhpFuncNameIdx(body, i)] = method_name

\* rf"interface\s+{interface_name}\s*{{([^}}]+)}}" matched from token i:
\* the index of the opening brace, 0 when there is no match.
PhpInterfaceBraceIdx(c, i, interface_name) ==
    LET n == SkipBlanks(c, i + 1)
        b == SkipBlanks(c, n + Len(interface_name))
    IN  IF /\ TokIs(c, i, "interface")
           /\ n > i + 1
           /\ LitAt(c, n, interface_name)
           /\ TokIs(c, b, "{")
           /\ b + 1 <= Len(c) /\ c[b + 1] # "}"
           /\ \E j \in (b + 2)..Len(c) : c[j] = "}"
        THEN b ELSE 0

PhpIsInterfaceMethod(method_name, interface_name, c) ==
    LET starts == {i \in 1..Len(c) :
                      PhpInterfaceBraceIdx(c, i, interface_name) # 0}
    IN  IF starts = {} THEN FALSE
        ELSE LET i == CHOOSE k \in starts : \A l \in starts : k <= l
                 b == PhpInterfaceBraceIdx(c, i, interface_name)
                 e == CHOOSE j \in (b + 2)..Len(c) :
                         c[j] = "}" /\ \A k \in (b + 2)..(j - 1) : c[k] # "}"
             IN  PhpDeclaresMethod(SubSeq(c, b + 1, e - 1), method_name)

\* "#[Route" in content[max(0, match.start() - 200) : match.start()]
PhpHasRouteBefore(c, i) ==
    \E j \in 1..(i - 3) :
        /\ LitAt(c, j, <<"#", "[", "Route">>)
        /\ CharPos(c, j - 1) >= CharPos(c, i - 1) - 200

\* the dict stored for one declaration (the dict's "name" key is the key)
PhpElement(c, i) ==
    LET func_name  == c[PhpFuncNameIdx(c, i)]
        class_name == PhpFindClassName(c, i)
        full_name  == IF class_name # NoClass
                      THEN class_name \o "::" \o func_name ELSE func_name
    IN  [name       |-> full_name,
         lines      |-> PhpCountFunctionLines(c, PhpFuncParenIdx(c, i) + 1),
         base_name  |-> func_name,
         class_name |-> class_name,
         type       |-> "function",
         status     |-> IF \E p \in PHP_FALSE_POSITIVE_PATTERNS :
                              StrContains(full_name, p)
                        THEN "potential false positive" ELSE ""]

\* the two "continue" of the loop over the matches
PhpSkipsDeclaration(c, i) ==
    \/ PhpHasRouteBefore(c, i)
    \/ LET class_name == PhpFindClassName(c, i)
           interfaces == PhpInterfaces(c, class_name)
       IN  /\ class_name # NoClass
           /\ \E k \in 1..Len(interfaces) :
                  PhpIsInterfaceMethod(c[PhpFuncNameIdx(c, i)], interfaces[k], c)

HasKey(d, name) == \E k \in 1..Len(d) : d[k].name = name

\* PhpAnalyzer.analyze_file_content: the loop over re.finditer; S is the
\* set of tokens at which the function pattern matches
RECURSIVE PhpAnalyzeFrom(_, _, _, _)
PhpAnalyzeFrom(c, S, i, acc) ==
    IF NextIn(S, i) = 0 THEN acc
    ELSE LET m == NextIn(S, i)
         IN  PhpAnalyzeFrom(c, S, PhpFuncParenIdx(c, m) + 1,
                 IF PhpSkipsDeclaration(c, m) \/ HasKey(acc, PhpElement(c, m).name)
                 THEN acc ELSE Append(acc, PhpElement(c, m)))

PhpAnalyzeFileContent(c) ==
    PhpAnalyzeFrom(c, {i \in 1..Len(c) : PhpFuncMatchAt(c, i)}, 1, <<>>)

----------------------------------------------------------------------------
(* PhpAnalyzer: usage matching *)

\* {base_name}\s*\( with the name at the end of token i
CallAt(c, i, base_name) ==
    /\ i >= 1 /\ i <= Len(c)
    /\ StrEndsWith(c[i], base_name)
    /\ TokIs(c, SkipBlanks(c, i + 1), "(")

\* (?<!function\s): the nine characters before token i are not "function"
\* and one blank character
AfterFunctionKw(c, i) ==
    i >= 3 /\ c[i - 1] \in {" ", "\n"} /\ StrEndsWith(c[i - 2], "function")

\* the pattern lists of check_usage, as the set of tokens at which the name
\* of some pattern's match stands
PhpUsageHits(c, e) ==
    IF e.type = "function"
    THEN {i \in 1..Len(c) :
            /\ CallAt(c, i, e.base_name)
            /\ \/ c[i] # e.base_name
               \/ ~AfterFunctionKw(c, i)
               \/ LitAt(c, i - 4, <<"$", "this", "-", ">">>)
               \/ LitAt(c, i - 3, <<"self", ":", ":">>)
               \/ LitAt(c, i - 3, <<"static", ":", ":">>)}
    ELSE {i \in 1..Len(c) :
            /\ TokIs(c, i, e.base_name)
            /\ \/ LitAt(c, i - 4,
                        <<IF e.class_name = NoClass THEN "None"
                          ELSE e.class_name, ":", ":", "$">>)
               \/ LitAt(c, i - 4, <<"static", ":", ":", "$">>)
               \/ LitAt(c, i - 4, <<"self", ":", ":", "$">>)}

\* PhpAnalyzer.check_usage; found is self.found_usage as the task sees it,
\* c the result of read_file.  TRUE stands for the returned name, FALSE for
\* None.
PhpCheckUsage(found, c, e) ==
    IF InSeq(e.name, found) THEN FALSE
    ELSE IF c = <<>> THEN FALSE
    ELSE PhpUsageHits(c, e) # {}

----------------------------------------------------------------------------
(* PythonAnalyzer: extraction *)

PY_FALSE_POSITIVE_PATTERNS ==
    {"test_", "setup", "teardown", "__str__", "__call__", "__repr__",
     "__init__", "__post_init__", "__getitem__", "before_sentry_send"}

\* (?:async\s+)?def\s+(\w+)\s*\( matched from token i: index of "def", 0
\* when the pattern does not match at i
PyDefIdx(c, i) ==
    LET d == IF TokIs(c, i, "async") /\ SkipBlanks(c, i + 1) > i + 1
                /\ TokIs(c, SkipBlanks(c, i + 1), "def")
             THEN SkipBlanks(c, i + 1)
             ELSE IF TokIs(c, i, "def") THEN i ELSE 0
        n == SkipBlanks(c, d + 1)
    IN  IF d # 0 /\ n > d + 1 /\ TokWord(c, n)
           /\ TokIs(c, SkipBlanks(c, n + 1), "(")
        THEN d ELSE 0

PyDefNameIdx(c, i) == SkipBlanks(c, PyDefIdx(c, i) + 1)

PyDefParenIdx(c, i) == SkipBlanks(c, PyDefNameIdx(c, i) + 1)

\* \w+(?:\.\w+)* from the word at token j: index of its last word
RECURSIVE DottedEnd(_, _)
DottedEnd(c, j) ==
    IF TokIs(c, j + 1, ".") /\ TokWord(c, j + 2)
    THEN DottedEnd(c, j + 2) ELSE j

\* \([^)]*(?:"[^"]*"[^)]*)*\) from the "(" at token o to the ")" at token
\* p: every ")" in between lies between two consecutive double quotes, and
\* no double quote serves two such pairs
PyArgsSpan(c, o, p) ==
    LET Q == {q \in (o + 1)..(p - 1) : c[q] = "\""}
        gap(r) == Cardinality({q \in Q : q < r})
        R == {r \in (o + 1)..(p - 1) : c[r] = ")"}
    IN  /\ TokIs(c, o, "(") /\ TokIs(c, p, ")") /\ p > o
        /\ \A r \in R : gap(r) >= 1 /\ gap(r) <= Cardinality(Q) - 1
        /\ \A r1, r2 \in R : gap(r2) # gap(r1) + 1

\* (?:@[^\n]+\n\s*)* from token b: index of the token after the lines taken
RECURSIVE PyDecoratorLinesEnd(_, _)
PyDecoratorLinesEnd(c, b) ==
    LET nls == {j \in (b + 2)..Len(c) : c[j] = "\n"}
    IN  IF TokIs(c, b, "@") /\ b + 1 <= Len(c) /\ c[b + 1] # "\n" /\ nls # {}
        THEN PyDecoratorLinesEnd(c, SkipBlanks(c, NextIn(nls, 1) + 1))
        ELSE b

\* \s*\n\s*(?:@[^\n]+\n\s*)*(?:async\s+)?def\s+(\w+)\s*\( from token s:
\* the token at which the def pattern starts, 0 when there is no match
PyDecoratedDefStart(c, s) ==
    LET b == SkipBlanks(c, s)
        d == PyDecoratorLinesEnd(c, b)
    IN  IF (\E j \in s..(b - 1) : c[j] = "\n") /\ PyDefIdx(c, d) # 0
        THEN d ELSE 0

\* decorator_pattern matched from the "@" at token i: the token at which
\* the def pattern starts, 0 when there is no match
PyDecoratorDefStart(c, i) ==
    IF ~(TokIs(c, i, "@") /\ TokWord(c, i + 1)) THEN 0
    ELSE LET a == DottedEnd(c, i + 1)
             o == SkipBlanks(c, a + 1)
             P == {p \in (o + 1)..Len(c) :
                      PyArgsSpan(c, o, p) /\ PyDecoratedDefStart(c, p + 1) # 0}
         IN  IF P # {} THEN PyDecoratedDefStart(c, NextIn(P, 1) + 1)
             ELSE PyDecoratedDefStart(c, a + 1)

\* group 1: the dotted name after "@", as text
PyDecoratorName(c, i) ==
    JoinStr(SubSeq(c, i + 1, DottedEnd(c, i + 1)), "")

\* group 2
PyDecoratorFunc(c, i) == c[PyDefNameIdx(c, PyDecoratorDefStart(c, i))]

\* re.finditer(decorator_pattern, content): the tokens at which the
\* successive matches start; S is the set of "@" at which the pattern matches
RECURSIVE PyDecoratorMatches(_, _, _)
PyDecoratorMatches(c, S, i) ==
    IF NextIn(S, i) = 0 THEN <<>>
    ELSE <<NextIn(S, i)>>
         \o PyDecoratorMatches(c, S,
                PyDefParenIdx(c, PyDecoratorDefStart(c, NextIn(S, i))) + 1)

\* the matches of decorator_pattern in order, each with match.start() and
\* match.groups()
PyDecorators(c) ==
    LET starts == PyDecoratorMatches(
                      c, {i \in 1..Len(c) : PyDecoratorDefStart(c, i) # 0}, 1)
    IN  [k \in 1..Len(starts) |->
            [pos            |-> starts[k],
             decorator_name |-> PyDecoratorName(c, starts[k]),
             func_name      |-> PyDecoratorFunc(c, starts[k])]]

\* any('validator' in d.lower() for d in decorated_functions[func_name]),
\* False when func_name is not a key of decorated_functions
PyHasValidator(decos, func_name) ==
    \E k \in 1..Len(decos) :
        /\ decos[k].func_name = func_name
        /\ StrContains(StrLower(decos[k].decorator_name), "validator")

IsPropertyDecorator(d) ==
    d.decorator_name \in {"property", "cached_property"}

\* func_name in property_functions
PyIsPropertyFunction(decos, func_name) ==
    \E k \in 1..Len(decos) :
        IsPropertyDecorator(decos[k]) /\ decos[k].func_name = func_name

\* property_functions.items(): for each key in the order of its first
\* insertion, the match.start() stored last
PyPropertyItems(decos) ==
    LET props == SelectSeq(decos, IsPropertyDecorator)
        firsts == {k \in 1..Len(props) :
                      \A j \in 1..(k - 1) : props[j].func_name # props[k].func_name}
        lastOf(k) == CHOOSE j \in 1..Len(props) :
                        /\ props[j].func_name = props[k].func_name
                        /\ \A l \in (j + 1)..Len(props) :
                              props[l].func_name # props[k].func_name
        keys == FilterIdx(firsts, 1, Len(props))
    IN  [k \in 1..Len(keys) |->
            [func_name |-> props[keys[k]].func_name,
             pos       |-> props[lastOf(keys[k])].pos]]

\* the tokens of the line that starts at token s
LineAt(c, s) ==
    LET nl == NextIn({j \in 1..Len(c) : c[j] = "\n"}, s)
    IN  SubSeq(c, s, IF nl = 0 THEN Len(c) ELSE nl - 1)

\* ^(\s*)class\s+(\w+)(?:\s*\([\w\s,]*\))?\s*: matched on one line: the
\* index of the class name, 0 when there is no match
PyClassNameIdx(line) ==
    LET k == SkipBlanks(line, 1)
        n == SkipBlanks(line, k + 1)
        o == SkipBlanks(line, n + 1)
        e == ListRunEnd(line, o + 1)
    IN  IF /\ TokIs(line, k, "class") /\ n > k + 1 /\ TokWord(line, n)
           /\ \/ TokIs(line, o, ":")
              \/ /\ TokIs(line, o, "(") /\ TokIs(line, e, ")")
                 /\ TokIs(line, SkipBlanks(line, e + 1), ":")
        THEN n ELSE 0

\* PythonAnalyzer.find_class_name(content, position), position being the
\* offset of token i
PyFindClassName(c, i) ==
    LET before == SubSeq(c, 1, i - 1)
        nls == {j \in 1..Len(before) : before[j] = "\n"}
        starts == {1} \cup {j + 1 : j \in nls}
        lastStart == CHOOSE st \in starts : \A o \in starts : o <= st
        lastLine == SubSeq(before, lastStart, Len(before))
        func_indent == CharPos(lastLine, SkipBlanks(lastLine, 1) - 1)
        indentOf(st) == CharPos(LineAt(before, st),
                                SkipBlanks(LineAt(before, st), 1) - 1)
        hits == {st \in starts :
                    /\ st < lastStart
                    /\ PyClassNameIdx(LineAt(before, st)) # 0
                    /\ indentOf(st) < func_indent}
    IN  IF hits = {} THEN NoClass
        ELSE LET st == CHOOSE h \in hits : \A o \in hits : o <= h
             IN  LineAt(before, st)[PyClassNameIdx(LineAt(before, st))]

\* PythonAnalyzer.count_function_lines(content, start_pos), start_pos being
\* the offset of token pos
RECURSIVE PyCountFrom(_, _, _, _)
PyCountFrom(c, pos, bracket_count, line_count) ==
    IF pos > Len(c) THEN line_count
    ELSE IF c[pos] \in {"{", ":"}
         THEN PyCountFrom(c, pos + 1, bracket_count + 1, line_count)
    ELSE IF \/ c[pos] = "}"
            \/ c[pos] = "\n" /\ c[IF pos = 1 THEN Len(c) ELSE pos - 1] = "\n"
         THEN IF bracket_count - 1 = 0 THEN line_count
              ELSE PyCountFrom(c, pos + 1, bracket_count - 1, line_count)
    ELSE IF c[pos] = "\n"
         THEN PyCountFrom(c, pos + 1, bracket_count, line_count + 1)
    ELSE PyCountFrom(c, pos + 1, bracket_count, line_count)

PyCountFunctionLines(c, pos) == PyCountFrom(c, pos, 0, 1)

\* str.replace(old, "")
RECURSIVE StrRemove(_, _)
StrRemove(s, old) ==
    IF Len(s) < Len(old) THEN s
    ELSE IF SubSeq(s, 1, Len(old)) = old
         THEN StrRemove(SubSeq(s, Len(old) + 1, Len(s)), old)
    ELSE SubSeq(s, 1, 1) \o StrRemove(SubSeq(s, 2, Len(s)), old)

\* os.path.basename(filepath).replace(".py", "")
PyModuleName(file_name) == StrRemove(file_name, ".py")

PyStatus(full_name) ==
    IF \E p \in PY_FALSE_POSITIVE_PATTERNS : StrContains(full_name, p)
    THEN "potential false positive" ELSE ""

\* "Process properties": the loop over property_functions.items()
RECURSIVE PyProperties(_, _, _, _, _, _)
PyProperties(c, filename, decos, items, k, acc) ==
    IF k > Len(items) THEN acc
    ELSE LET func_name  == items[k].func_name
             class_name == PyFindClassName(c, items[k].pos)
             full_name  == filename \o "::" \o class_name \o "::" \o func_name
         IN  PyProperties(c, filename, decos, items, k + 1,
                 IF \/ PyHasValidator(decos, func_name)
                    \/ class_name = NoClass
                    \/ HasKey(acc, full_name)
                 THEN acc
                 ELSE Append(acc,
                        [name       |-> full_name,
                         lines      |-> PyCountFunctionLines(c, items[k].pos),
                         base_name  |-> func_name,
                         class_name |-> class_name,
                         type       |-> "property",
                         status     |-> PyStatus(full_name)]))

\* "Find regular functions/methods": the loop over re.finditer; S is the
\* set of tokens at which function_pattern matches
RECURSIVE PyFunctions(_, _, _, _, _, _)
PyFunctions(c, filename, decos, S, i, acc) ==
    IF NextIn(S, i) = 0 THEN acc
    ELSE LET m          == NextIn(S, i)
             func_name  == c[PyDefNameIdx(c, m)]
             class_name == PyFindClassName(c, m)
             full_name  == IF class_name # NoClass
                           THEN filename \o "::" \o class_name \o "::" \o func_name
                           ELSE filename \o "::" \o func_name
         IN  PyFunctions(c, filename, decos, S, PyDefParenIdx(c, m) + 1,
                 IF \/ PyHasValidator(decos, func_name)
                    \/ PyIsPropertyFunction(decos, func_name)
                    \/ HasKey(acc, full_name)
                 THEN acc
                 ELSE Append(acc,
                        [name       |-> full_name,
                         lines      |-> PyCountFunctionLines(c, PyDefParenIdx(c, m) + 1),
                         base_name  |-> func_name,
                         class_name |-> class_name,
                         type       |-> IF class_name # NoClass THEN "method"
                                        ELSE "function",
                         status     |-> PyStatus(full_name)]))

\* PythonAnalyzer.analyze_file_content(content, filepath)
PyAnalyzeFileContent(c, file_name) ==
    LET decos == PyDecorators(c)
        filename == PyModuleName(file_name)
    IN  PyFunctions(c, filename, decos,
                    {i \in 1..Len(c) : PyDefIdx(c, i) # 0}, 1,
                    PyProperties(c, filename, decos, PyPropertyItems(decos),
                                 1, <<>>))

----------------------------------------------------------------------------
(* PythonAnalyzer: usage matching *)

\* the offset of the first occurrence of sep in s (0 when s starts with
\* sep), Len(s) when there is none
StrFind(s, sep) ==
    LET at == {i \in 1..(Len(s) - Len(sep) + 1) :
                  SubSeq(s, i, i + Len(sep) - 1) = sep}
    IN  IF at = {} THEN Len(s) ELSE NextIn(at, 1) - 1

\* name.split("::")[0]
StrBefore(s, sep) == SubSeq(s, 1, StrFind(s, sep))

\* name.split("::")[-1]
RECURSIVE StrAfterLast(_, _)
StrAfterLast(s, sep) ==
    IF StrFind(s, sep) = Len(s) THEN s
    ELSE StrAfterLast(SubSeq(s, StrFind(s, sep) + Len(sep) + 1, Len(s)), sep)

\* index of the last token before i that is not a blank (0 when none)
RECURSIVE SkipBlanksBack(_, _)
SkipBlanksBack(c, i) ==
    IF i >= 1 /\ IsBlank(c[i]) THEN SkipBlanksBack(c, i - 1) ELSE i

\* the word at token i is followed by \s*\(
ParenAfter(c, i) == TokIs(c, SkipBlanks(c, i + 1), "(")

\* (?<!def\s)
AfterDefKw(c, i) ==
    i >= 3 /\ c[i - 1] \in {" ", "\n"} /\ StrEndsWith(c[i - 2], "def")

\* \w+\. before token i
AfterReceiver(c, i) == TokIs(c, i - 1, ".") /\ TokWord(c, i - 2)

\* self\.{func_name} and super\(\)\.{func_name} with the name at token i
AfterSelf(c, i) ==
    TokIs(c, i - 1, ".") /\ i >= 3 /\ StrEndsWith(c[i - 2], "self")

AfterSuper(c, i) ==
    /\ LitAt(c, i - 3, <<"(", ")", ".">>)
    /\ i >= 5 /\ StrEndsWith(c[i - 4], "super")

\* base_patterns["property"], as the tokens at which func_name stands in a
\* match; the fourth pattern is \b{func_name}\b(?!\s*\() alone
PyPropertyHits(c, func_name) ==
    {i \in 1..Len(c) :
        /\ c[i] = func_name
        /\ ~ParenAfter(c, i)
        /\ (AfterSelf(c, i) \/ AfterReceiver(c, i) \/ AfterSuper(c, i)
            \/ IsWord(c[i]))}

\* base_patterns["method"]
PyMethodHits(c, func_name) ==
    {i \in 1..Len(c) :
        /\ c[i] = func_name
        /\ ParenAfter(c, i)
        /\ (AfterSelf(c, i) \/ AfterReceiver(c, i) \/ AfterSuper(c, i)
            \/ ~AfterDefKw(c, i))}

\* r"\w+\([^)]*{func_name}[^)]*\)": func_name inside token i, between a
\* "(" that follows a word and the first ")" after that "("
PyAsArgument(c, i, func_name) ==
    /\ StrContains(c[i], func_name)
    /\ \E o \in 2..(i - 1) :
          /\ c[o] = "(" /\ IsWord(c[o - 1])
          /\ \A k \in (o + 1)..i : c[k] # ")"
    /\ \E q \in (i + 1)..Len(c) : c[q] = ")"

\* base_patterns["function"]
PyFunctionHits(c, func_name) ==
    {i \in 1..Len(c) :
        \/ /\ c[i] = func_name
           /\ ParenAfter(c, i)
           /\ \/ ~AfterDefKw(c, i) /\ ~TokIs(c, i - 1, ".")
              \/ TokIs(c, SkipBlanksBack(c, i - 1), "=")
              \/ /\ i >= 3 /\ IsBlank(c[i - 1])
                 /\ SkipBlanksBack(c, i - 1) >= 1
                 /\ StrEndsWith(c[SkipBlanksBack(c, i - 1)], "return")
              \/ TokIs(c, SkipBlanksBack(c, i - 1), ",")
              \/ TokIs(c, SkipBlanksBack(c, i - 1), "(")
              \/ AfterReceiver(c, i)
        \/ PyAsArgument(c, i, func_name)}

\* import_patterns: rf"from\s+{current_file}\s+import\s+{func_name}" and,
\* for a function, rf"import\s+{current_file}\.{func_name}"
PyImportHits(c, type, current_file, func_name) ==
    {i \in 1..Len(c) :
        /\ StrStartsWith(c[i], func_name)
        /\ \/ LET im == SkipBlanksBack(c, i - 1)
                  cf == SkipBlanksBack(c, im - 1)
                  fr == SkipBlanksBack(c, cf - 1)
              IN  /\ im >= 1 /\ im < i - 1 /\ c[im] = "import"
                  /\ cf >= 1 /\ cf < im - 1 /\ c[cf] = current_file
                  /\ fr >= 1 /\ fr < cf - 1 /\ StrEndsWith(c[fr], "from")
           \/ /\ type = "function"
              /\ TokIs(c, i - 1, ".")
              /\ TokIs(c, i - 2, current_file)
              /\ i >= 5 /\ IsBlank(c[i - 3])
              /\ SkipBlanksBack(c, i - 3) >= 1
              /\ StrEndsWith(c[SkipBlanksBack(c, i - 3)], "import")}

\* PythonAnalyzer._get_patterns, as the tokens at which some pattern matches
PyUsageHits(c, e, is_same_file) ==
    LET func_name == StrAfterLast(e.name, "::")
    IN  (IF e.type = "property" THEN PyPropertyHits(c, func_name)
         ELSE IF e.type = "method" THEN PyMethodHits(c, func_name)
         ELSE PyFunctionHits(c, func_name))
        \cup
        (IF is_same_file THEN {}
         ELSE PyImportHits(c, e.type, StrBefore(e.name, "::"), func_name))

\* PythonAnalyzer.check_usage; file_name is os.path.basename(filepath)
PyCheckUsage(found, c, file_name, e) ==
    IF InSeq(e.name, found) THEN FALSE
    ELSE IF c = <<>> THEN FALSE
    ELSE PyUsageHits(c, e, StrBefore(e.name, "::") = PyModuleName(file_name)) # {}

----------------------------------------------------------------------------
(* File enumeration *)

\* root of os.walk for a file: the components of the path of its directory
RootOf(dir, f) == dir \o f.dirs

\* PhpAnalyzer.get_files: the positions in the walk of the files returned
PhpKeeps(dir, f, for_analysis) ==
    /\ StrEndsWith(f.name, ".php")
    /\ ~InSeq("vendor", RootOf(dir, f))
    /\ ~InSeq("cache", RootOf(dir, f))
    /\ LET is_test == \/ StrContains(StrLower(JoinStr(RootOf(dir, f), "/")), "test")
                      \/ StrEndsWith(f.name, "Test.php")
       IN  for_analysis # is_test

PhpGetFiles(dir, tr, for_analysis) ==
    FilterIdx({k \in 1..Len(tr) : PhpKeeps(dir, tr[k], for_analysis)},
              1, Len(tr))

\* PythonAnalyzer.get_files
PyKeeps(dir, f, for_analysis) ==
    /\ StrEndsWith(f.name, ".py")
    /\ ~InSeq("venv", RootOf(dir, f))
    /\ ~InSeq("__pycache__", RootOf(dir, f))
    /\ LET is_test == \/ StrContains(StrLower(JoinStr(RootOf(dir, f), "/")), "test")
                      \/ StrStartsWith(f.name, "test_")
                      \/ StrEndsWith(f.name, "_test.py")
       IN  for_analysis # is_test

PyGetFiles(dir, tr, for_analysis) ==
    FilterIdx({k \in 1..Len(tr) : PyKeeps(dir, tr[k], for_analysis)},
              1, Len(tr))

\* CodeAnalyzer.read_file: the decoded text of the file at position k
ReadFile(tr, k) == tr[k].content

----------------------------------------------------------------------------
(* CodeAnalyzer.analyze *)

\* the three abstract methods, dispatched on the subclass
GetFiles(for_analysis) ==
    IF lang = "php" THEN PhpGetFiles(directory, tree, for_analysis)
    ELSE PyGetFiles(directory, tree, for_analysis)

AnalyzeFileContent(c, k) ==
    IF lang = "php" THEN PhpAnalyzeFileContent(c)
    ELSE PyAnalyzeFileContent(c, tree[k].name)

CheckUsage(found, k, e) ==
    IF lang = "php" THEN PhpCheckUsage(found, ReadFile(tree, k), e)
    ELSE PyCheckUsage(found, ReadFile(tree, k), tree[k].name, e)

\* dict.update: a key already present keeps its position and takes the new
\* value, a new key is appended
RECURSIVE DictUpdate(_, _)
DictUpdate(d, other) ==
    IF other = <<>> THEN d
    ELSE LET e == Head(other)
         IN  DictUpdate(
                 IF HasKey(d, e.name)
                 THEN [k \in 1..Len(d) |->
                          IF d[k].name = e.name THEN e ELSE d[k]]
                 ELSE Append(d, e),
                 Tail(other))

\* found_usage replaced by the matches of the last file instead of extended
ExtendFoundOverwrite(found, matched) == matched

\* found_usage extended without dropping the None of the results
ExtendFoundKeepsNone(found, matched) == found \o matched \o <<NoClass>>

\* self.found_usage.extend([r for r in results if r])
ExtendFound(found, matched) == found \o matched

\* remaining = [e for name, e in elements.items() if name not in found]
Remaining(els, found) == SelectSeq(els, LAMBDA e : ~InSeq(e.name, found))

\* the early-exit test with < for <=
EarlyExitTestStrict(els, found, lim) == lim # 0 /\ Len(els) - Len(found) < lim

\* if limit and len(elements) - len(self.found_usage) <= limit: break
EarlyExitTest(els, found, lim) == lim # 0 /\ Len(els) - Len(found) <= lim

\* the result loop with the break taken whether or not a limit is set
RECURSIVE CollectUnusedAlwaysBreak(_, _, _, _, _)
CollectUnusedAlwaysBreak(els, found, lim, k, acc) ==
    IF k > Len(els) THEN acc
    ELSE IF InSeq(els[k].name, found)
         THEN CollectUnusedAlwaysBreak(els, found, lim, k + 1, acc)
    ELSE LET acc2 == Append(acc, <<els[k].name, els[k].lines, 0, els[k].status>>)
         IN  IF Len(acc2) >= lim THEN acc2
             ELSE CollectUnusedAlwaysBreak(els, found, lim, k + 1, acc2)

\* the result loop with the break one entry late (> for >=)
RECURSIVE CollectUnusedLateBreak(_, _, _, _, _)
CollectUnusedLateBreak(els, found, lim, k, acc) ==
    IF k > Len(els) THEN acc
    ELSE IF InSeq(els[k].name, found)
         THEN CollectUnusedLateBreak(els, found, lim, k + 1, acc)
    ELSE LET acc2 == Append(acc, <<els[k].name, els[k].lines, 0, els[k].status>>)
         IN  IF lim # 0 /\ Len(acc2) > lim THEN acc2
             ELSE CollectUnusedLateBreak(els, found, lim, k + 1, acc2)

\* the loop that fills results, with its break on unused_count >= limit
RECURSIVE CollectUnused(_, _, _, _, _)
CollectUnused(els, found, lim, k, acc) ==
    IF k > Len(els) THEN acc
    ELSE IF InSeq(els[k].name, found)
         THEN CollectUnused(els, found, lim, k + 1, acc)
    ELSE LET acc2 == Append(acc, <<els[k].name, els[k].lines, 0, els[k].status>>)
         IN  IF lim # 0 /\ Len(acc2) >= lim THEN acc2
             ELSE CollectUnused(els, found, lim, k + 1, acc2)

\* an insertion that puts x before the entries with the same line count
InsertDescBeforeTies(sorted, x) ==
    LET n == Cardinality({k \in 1..Len(sorted) : sorted[k][2] > x[2]})
    IN  SubSeq(sorted, 1, n) \o <<x>> \o SubSeq(sorted, n + 1, Len(sorted))

\* results.sort(key=lambda x: x[1], reverse=True): stable, descending
InsertDesc(sorted, x) ==
    LET n == Cardinality({k \in 1..Len(sorted) : sorted[k][2] >= x[2]})
    IN  SubSeq(sorted, 1, n) \o <<x>> \o SubSeq(sorted, n + 1, Len(sorted))

RECURSIVE SortDesc(_)
SortDesc(rs) ==
    IF rs = <<>> THEN <<>>
    ELSE InsertDesc(SortDesc(SubSeq(rs, 1, Len(rs) - 1)), rs[Len(rs)])

BuildResults(els, found, lim) == SortDesc(CollectUnused(els, found, lim, 1, <<>>))

\* all_files = source_files + test_files
AllFiles == source_files \o test_files

\* an iteration of the first loop without the test "if content": the
\* extractor is called on what read_file returned, and the exception it
\* raises for a missing content ends analyze()
CollectRaisesOnEmpty ==
    /\ pc = "collecting"
    /\ idx <= Len(source_files)
    /\ IF ReadFile(tree, source_files[idx]) = <<>>
       THEN pc' = "aborted" /\ UNCHANGED <<elements, idx>>
       ELSE /\ elements' = DictUpdate(elements,
                   AnalyzeFileContent(ReadFile(tree, source_files[idx]),
                                      source_files[idx]))
            /\ idx' = idx + 1
            /\ pc' = pc
    /\ UNCHANGED <<input, pool, files, reuse, run, found_usage,
                   visited, results, first_results>>

\* one iteration of "for filepath in source_files"
Collect ==
    /\ pc = "collecting"
    /\ idx <= Len(source_files)
    /\ LET k == source_files[idx]
           content == ReadFile(tree, k)
       IN  elements' = IF content # <<>>
                       THEN DictUpdate(elements, AnalyzeFileContent(content, k))
                       ELSE elements
    /\ idx' = idx + 1
    /\ UNCHANGED <<input, pool, files, reuse, run, pc, found_usage,
                   visited, results, first_results>>

\* the end of the first loop: all_files = source_files + test_files
StartResolving ==
    /\ pc = "collecting"
    /\ idx > Len(source_files)
    /\ pc' = "resolving"
    /\ idx' = 1
    /\ UNCHANGED <<input, pool, files, reuse, run, elements,
                   found_usage, visited, results, first_results>>

\* one iteration of "for filepath in all_files" that reaches pool.map
ResolveFile ==
    /\ pc = "resolving"
    /\ idx <= Len(AllFiles)
    /\ ~EarlyExitTest(elements, found_usage, limit)
    /\ LET k == AllFiles[idx]
           remaining == Remaining(elements, found_usage)
           matched == SelectSeq(remaining,
                                LAMBDA e : CheckUsage(found_usage, k, e))
       IN  /\ found_usage' =
                 ExtendFound(found_usage, [j \in 1..Len(matched) |-> matched[j].name])
           /\ visited' = Append(visited, k)
    /\ idx' = idx + 1
    /\ UNCHANGED <<input, pool, files, reuse, run, pc, elements,
                   results, first_results>>

\* the break of the second loop, then the result list
EarlyExit ==
    /\ pc = "resolving"
    /\ idx <= Len(AllFiles)
    /\ EarlyExitTest(elements, found_usage, limit)
    /\ results' = BuildResults(elements, found_usage, limit)
    /\ pc' = "done"
    /\ UNCHANGED <<input, pool, files, reuse, run, idx, elements,
                   found_usage, visited, first_results>>

\* the second loop runs out of files, then the result list
Report ==
    /\ pc = "resolving"
    /\ idx > Len(AllFiles)
    /\ results' = BuildResults(elements, found_usage, limit)
    /\ pc' = "done"
    /\ UNCHANGED <<input, pool, files, reuse, run, idx, elements,
                   found_usage, visited, first_results>>

\* a second analyze(limit) on a new analyzer for the same directory
RerunFresh ==
    /\ pc = "done" /\ run = 1
    /\ run' = 2
    /\ reuse' = FALSE
    /\ first_results' = results
    /\ found_usage' = <<>>
    /\ elements' = <<>>
    /\ visited' = <<>>
    /\ results' = <<>>
    /\ pc' = "collecting"
    /\ idx' = 1
    /\ source_files' = GetFiles(TRUE)
    /\ test_files' = GetFiles(FALSE)
    /\ UNCHANGED <<input, pool>>

\* a second analyze(limit) on the same analyzer: found_usage is kept
RerunSame ==
    /\ pc = "done" /\ run = 1
    /\ run' = 2
    /\ reuse' = TRUE
    /\ first_results' = results
    /\ elements' = <<>>
    /\ visited' = <<>>
    /\ results' = <<>>
    /\ pc' = "collecting"
    /\ idx' = 1
    /\ source_files' = GetFiles(TRUE)
    /\ test_files' = GetFiles(FALSE)
    /\ UNCHANGED <<input, pool, found_usage>>

----------------------------------------------------------------------------
(* pool.map, task by task *)

\* a worker that appends the name it matched to found_usage itself
TaskReturnWrites(t) ==
    /\ pc = "waiting"
    /\ tasks[t].ret = "pending"
    /\ LET hit == CheckUsage(snapshot, AllFiles[idx], tasks[t].e)
       IN  /\ tasks' = [tasks EXCEPT ![t].ret = IF hit THEN "match" ELSE "none"]
           /\ found_usage' = IF hit THEN Append(found_usage, tasks[t].e.name)
                             ELSE found_usage
    /\ UNCHANGED <<input, files, reuse, run, pc, idx, elements, snapshot,
                   visited, results, first_results>>

\* pool.map(partial(self.check_usage, filepath), remaining) is called: one
\* task per remaining element; the bound method is pickled with the tasks,
\* and self.found_usage with it
Dispatch ==
    /\ pc = "resolving"
    /\ idx <= Len(AllFiles)
    /\ ~EarlyExitTest(elements, found_usage, limit)
    /\ LET remaining == Remaining(elements, found_usage)
       IN  tasks' = [j \in 1..Len(remaining) |->
                        [e |-> remaining[j], ret |-> "pending"]]
    /\ snapshot' = found_usage
    /\ pc' = "waiting"
    /\ UNCHANGED <<input, files, reuse, run, idx, elements, found_usage,
                   visited, results, first_results>>

\* a worker process runs check_usage for task t on its copy of the analyzer
\* and returns the result; the tasks of a batch end in any order
TaskReturn(t) ==
    /\ pc = "waiting"
    /\ tasks[t].ret = "pending"
    /\ tasks' = [tasks EXCEPT ![t].ret =
                    IF CheckUsage(snapshot, AllFiles[idx], tasks[t].e)
                    THEN "match" ELSE "none"]
    /\ UNCHANGED <<input, files, reuse, run, pc, idx, elements, found_usage,
                   snapshot, visited, results, first_results>>

\* pool.map returns the results in the order of remaining, and analyze()
\* extends found_usage with those that are not None
Gather ==
    /\ pc = "waiting"
    /\ \A t \in 1..Len(tasks) : tasks[t].ret # "pending"
    /\ LET matched == SelectSeq(tasks, LAMBDA t : t.ret = "match")
       IN  found_usage' =
               ExtendFound(found_usage,
                           [j \in 1..Len(matched) |-> matched[j].e.name])
    /\ visited' = Append(visited, AllFiles[idx])
    /\ idx' = idx + 1
    /\ pc' = "resolving"
    /\ tasks' = <<>>
    /\ snapshot' = <<>>
    /\ UNCHANGED <<input, files, reuse, run, elements,
                   results, first_results>>

----------------------------------------------------------------------------
(* The directories analysed *)

Names == <<"fa", "fb", "fc">>

PhpOpen == <<"<", "?", "php", "\n">>

\* function n() {  ...  } spanning body + 1 lines
PhpFunc(n, body) ==
    <<"function", " ", n, "(", ")", " ", "{">> \o Repeat("\n", body)
    \o <<"}", "\n">>

PhpCall(n) == <<n, "(", ")", ";", "\n">>

\* the number of lines of a function body: none (the function is absent),
\* one, or MaxBody
BodySizes == {0, 1, MaxBody}

\* a.php declares Names[k] with body[k] lines when body[k] > 0 and calls the
\* names of callsA; ATest.php calls the names of callsT
PhpSourceFile(body, callsA) ==
    [dirs |-> <<"src">>, name |-> "a.php",
     content |-> PhpOpen
        \o Flatten([k \in 1..Len(Names) |->
              IF body[k] > 0 THEN PhpFunc(Names[k], body[k]) ELSE <<>>])
        \o Flatten([k \in 1..Len(Names) |->
              IF Names[k] \in callsA THEN PhpCall(Names[k]) ELSE <<>>])]

PhpVendorFile ==
    [dirs |-> <<"vendor">>, name |-> "lib.php",
     content |-> PhpOpen \o PhpCall(Names[1])]

PhpTree(body, callsA, callsT) ==
    <<PhpSourceFile(body, callsA),
      PhpVendorFile,
      [dirs |-> <<"src">>, name |-> "ATest.php",
       content |-> PhpOpen
          \o Flatten([k \in 1..Len(Names) |->
                IF Names[k] \in callsT THEN PhpCall(Names[k]) ELSE <<>>])]>>

NameSet == {Names[k] : k \in 1..Len(Names)}

\* the directories with a.php and ATest.php, and those with a.php alone
PhpTrees ==
    {PhpTree(body, callsA, callsT) :
        body \in [1..Len(Names) -> BodySizes],
        callsA \in SUBSET NameSet, callsT \in SUBSET NameSet}
    \cup
    {<<PhpSourceFile(body, callsA), PhpVendorFile>> :
        body \in [1..Len(Names) -> BodySizes], callsA \in SUBSET NameSet}

\* K.php: a class with two static attributes, one of them read through
\* self:: in a method; the test file calls the method or not
PhpStaticTree(called) ==
    <<[dirs |-> <<"src">>, name |-> "K.php",
       content |-> PhpOpen
          \o <<"class", " ", "K", " ", "{", "\n",
               "    ", "public", " ", "static", " ", "$", "unusedAttr", ";", "\n",
               "    ", "public", " ", "static", " ", "$", "usedAttr", ";", "\n",
               "    ", "function", " ", "someMethod", "(", ")", " ", "{", "\n",
               "        ", "return", " ", "self", ":", ":", "$", "usedAttr", ";", "\n",
               "    ", "}", "\n", "}", "\n">>],
      [dirs |-> <<"src">>, name |-> "KTest.php",
       content |-> PhpOpen
          \o (IF called THEN <<"$", "k", "-", ">">> \o PhpCall("someMethod")
              ELSE <<>>)]>>

\* I.php: an interface listing req and a class that implements it and
\* provides req and other; the test file calls the names of calls
PhpInterfaceTree(calls) ==
    <<[dirs |-> <<"src">>, name |-> "I.php",
       content |-> PhpOpen
          \o <<"interface", " ", "I", " ", "{", "\n",
               "    ", "function", " ", "req", "(", ")", ";", "\n",
               "}", "\n",
               "class", " ", "Impl", " ", "implements", " ", "I", " ", "{", "\n",
               "    ", "function", " ", "req", "(", ")", " ", "{", "\n",
               "    ", "}", "\n",
               "    ", "function", " ", "other", "(", ")", " ", "{", "\n", "\n",
               "    ", "}", "\n", "}", "\n">>],
      [dirs |-> <<"src">>, name |-> "ITest.php",
       content |-> PhpOpen
          \o Flatten([k \in 1..2 |->
                IF <<"req", "other">>[k] \in calls
                THEN <<"$", "o", "-", ">">> \o PhpCall(<<"req", "other">>[k])
                ELSE <<>>])]>>

\* a.php and b.php both declare the function fa, with x and y body lines;
\* b.php calls fa or not
PhpDuplicateTree(x, y, called) ==
    <<[dirs |-> <<"src">>, name |-> "a.php",
       content |-> PhpOpen \o PhpFunc("fa", x)],
      [dirs |-> <<"src">>, name |-> "b.php",
       content |-> PhpOpen \o PhpFunc("fa", y) \o PhpFunc("fb", 1)
          \o (IF called THEN PhpCall("fa") ELSE <<>>)]>>

PhpDuplicateTrees ==
    {PhpDuplicateTree(x, y, called) :
        x \in BodySizes \ {0}, y \in BodySizes \ {0}, called \in BOOLEAN}

\* s.php: the function fa with its opening brace on the line of the
\* declaration or on the next line, and a nested block in its body or not
PhpStyleTree(sep, nested, body) ==
    <<[dirs |-> <<"src">>, name |-> "s.php",
       content |-> PhpOpen
          \o <<"function", " ", "fa", "(", ")">> \o sep \o <<"{", "\n">>
          \o (IF nested
              THEN <<"    ", "if", " ", "(", "$", "x", ")", " ", "{", "\n",
                     "    ", "}", "\n">>
              ELSE <<>>)
          \o Repeat("\n", body - 1) \o <<"}", "\n">>]>>

PhpStyleTrees ==
    {PhpStyleTree(sep, nested, body) :
        sep \in {<<" ">>, <<"\n">>}, nested \in BOOLEAN,
        body \in BodySizes \ {0}}

PhpScenarioTrees ==
    {PhpStaticTree(called) : called \in BOOLEAN}
    \cup {PhpInterfaceTree(calls) : calls \in SUBSET {"req", "other"}}

\* def n(): with body lines of "pass" and a blank line after them
PyFunc(indent, n, params, body) ==
    indent \o <<"def", " ", n, "(">> \o params \o <<")", ":", "\n">>
    \o Flatten([k \in 1..body |-> indent \o <<"    ", "pass", "\n">>])
    \o <<"\n">>

\* the decorator stacks put on the method check of class A, top line first
DecoratorStacks ==
    {<<>>,
     <<<<"validator">>>>,
     <<<<"Field_Validator", "(", "\"", "x", "\"", ")">>>>,
     <<<<"classmethod">>, <<"validator">>>>,
     <<<<"validator">>, <<"classmethod">>>>,
     <<<<"staticmethod">>>>,
     <<<<"property">>>>}

PyDecoratorLines(indent, stack) ==
    Flatten([k \in 1..Len(stack) |-> indent \o <<"@">> \o stack[k] \o <<"\n">>])

\* the statements of usage.py
UsageStatements ==
    {<<>>,
     <<"from", " ", "module", " ", "import", " ", "helper", "\n">>,
     <<"from", " ", "module", " ", "import", " ", "other", ",", " ", "helper", "\n">>,
     <<"import", " ", "module", ".", "helper", "\n">>,
     <<"from", " ", "module", " ", "import", " ", "run", "\n">>,
     <<"import", " ", "module", ".", "run", "\n">>,
     <<"x", " ", "=", " ", "helper", "(", ")", "\n">>,
     <<"print", "(", "other", ")", "\n">>}

\* module.py declares the functions helper and other and the class A with
\* the methods check (decorated with stack) and run; usage.py holds one
\* statement; test_module.py calls the names of calls
PyTree(body, stack, stmt, calls) ==
    <<[dirs |-> <<"pkg">>, name |-> "module.py",
       content |-> PyFunc(<<>>, "helper", <<>>, body)
          \o PyFunc(<<>>, "other", <<>>, 1)
          \o <<"class", " ", "A", ":", "\n">>
          \o PyDecoratorLines(<<"    ">>, stack)
          \o PyFunc(<<"    ">>, "check", <<"self">>, 1)
          \o PyFunc(<<"    ">>, "run", <<"self">>, 2)],
      [dirs |-> <<"pkg">>, name |-> "usage.py", content |-> stmt],
      [dirs |-> <<"venv">>, name |-> "site.py",
       content |-> <<"helper", "(", ")", "\n">>],
      [dirs |-> <<"pkg">>, name |-> "test_module.py",
       content |-> Flatten([k \in 1..2 |->
             IF <<"other", "run">>[k] \in calls
             THEN <<"obj", ".", <<"other", "run">>[k], "(", ")", "\n">>
             ELSE <<>>])]>>

PyTrees ==
    {PyTree(body, stack, stmt, calls) :
        body \in BodySizes \ {0}, stack \in DecoratorStacks,
        stmt \in UsageStatements, calls \in SUBSET {"other", "run"}}

Init ==
    /\ directory = <<"srv", "app">>
    /\ \/ lang = "php" /\ tree \in PhpTrees \cup PhpScenarioTrees \cup PhpDuplicateTrees
                                   \cup PhpStyleTrees
       \/ lang = "python" /\ tree \in PyTrees
    /\ limit \in 0..MaxLimit
    /\ reuse = FALSE
    /\ run = 1
    /\ pc = "collecting"
    /\ source_files = GetFiles(TRUE)
    /\ test_files = GetFiles(FALSE)
    /\ idx = 1
    /\ elements = <<>>
    /\ found_usage = <<>>
    /\ visited = <<>>
    /\ results = <<>>
    /\ first_results = <<>>
    /\ tasks = <<>>
    /\ snapshot = <<>>

Next ==
    \/ Collect
    \/ StartResolving
    \/ ResolveFile
    \/ EarlyExit
    \/ Report
    \/ RerunFresh
    \/ RerunSame

Spec == Init /\ [][Next]_vars

\* the directories of the runs followed task by task
PoolTrees ==
    {PhpTree([k \in 1..Len(Names) |-> 1], callsA, callsT) :
        callsA \in SUBSET NameSet, callsT \in SUBSET NameSet}
    \cup {PyTree(1, <<>>, stmt, calls) :
              stmt \in UsageStatements, calls \in SUBSET {"other", "run"}}

PoolInit ==
    /\ directory = <<"srv", "app">>
    /\ \/ lang = "php" /\ tree \in {t \in PoolTrees : t[1].name = "a.php"}
       \/ lang = "python" /\ tree \in {t \in PoolTrees : t[1].name = "module.py"}
    /\ limit \in 0..MaxLimit
    /\ reuse = FALSE
    /\ run = 1
    /\ pc = "collecting"
    /\ source_files = GetFiles(TRUE)
    /\ test_files = GetFiles(FALSE)
    /\ idx = 1
    /\ elements = <<>>
    /\ found_usage = <<>>
    /\ visited = <<>>
    /\ results = <<>>
    /\ first_results = <<>>
    /\ tasks = <<>>
    /\ snapshot = <<>>

\* analyze() with the batch of each file run task by task
PoolNext ==
    \/ Collect
    \/ StartResolving
    \/ Dispatch
    \/ \E t \in 1..Len(tasks) : TaskReturn(t)
    \/ Gather
    \/ EarlyExit
    \/ Report

PoolSpec == PoolInit /\ [][PoolNext]_vars

----------------------------------------------------------------------------
(* Properties of analyze() *)

ResultNames == {results[j][1] : j \in 1..Len(results)}

\* check_usage finds a match for e in some file of all_files
MatchedSomewhere(e) ==
    \E k \in 1..Len(AllFiles) : CheckUsage(<<>>, AllFiles[k], e)

\* the elements analyze() holds that are not in found_usage
Unresolved == SelectSeq(elements, LAMBDA e : ~InSeq(e.name, found_usage))

FreshRun == run = 1 \/ ~reuse

PosOf(name) == CHOOSE k \in 1..Len(elements) : elements[k].name = name

\* C1: without a limit, a run on a fresh analyzer returns exactly one tuple
\* (name, lines, 0, status) for every element of the index that check_usage
\* matches in no file of analysis files + test files.
C1_UnmatchedReported ==
    (pc = "done" /\ limit = 0 /\ FreshRun) =>
        \A k \in 1..Len(elements) :
            ~MatchedSomewhere(elements[k]) =>
                /\ Cardinality({j \in 1..Len(results) :
                                   results[j][1] = elements[k].name}) = 1
                /\ \A j \in 1..Len(results) :
                      results[j][1] = elements[k].name =>
                          /\ results[j][2] = elements[k].lines
                          /\ results[j][3] = 0

C1_Witness ==
    /\ pc = "done" /\ limit = 0 /\ run = 1
    /\ Len(elements) = 3
    /\ Len(results) = 2
    /\ \E k \in 1..3 : MatchedSomewhere(elements[k])
    /\ \E k \in 1..3 : ~MatchedSomewhere(elements[k])

\* C2 (as claimed): whatever the limit, no element that check_usage matches
\* in some file of analysis files + test files is in the returned result.
C2_MatchedNeverReported ==
    pc = "done" =>
        \A k \in 1..Len(elements) :
            MatchedSomewhere(elements[k]) => elements[k].name \notin ResultNames

\* C3: with a positive limit L the returned result has at most L entries.
C3_AtMostLimit ==
    (pc = "done" /\ limit > 0) => Len(results) <= limit

C3_Witness ==
    /\ pc = "done" /\ limit > 0
    /\ Len(Unresolved) > limit
    /\ Len(results) = limit
    /\ Len(visited) = Len(AllFiles)

\* C4 (as claimed): with a limit L and more than L elements unresolved when
\* RESOLVING ends, the result is the L first of the unresolved elements in
\* descending order of lines: no unresolved element left out has more lines
\* than one that is returned.
C4_LargestKept ==
    (pc = "done" /\ limit > 0 /\ Len(Unresolved) > limit) =>
        /\ Len(results) = limit
        /\ \A k \in 1..Len(Unresolved) :
              Unresolved[k].name \notin ResultNames =>
                  \A j \in 1..Len(results) :
                      Unresolved[k].lines <= results[j][2]

\* C5: the returned sequence is in non-increasing order of lines, and two
\* entries with equal lines are in the order in which their names were
\* first inserted into the index.
C5_SortedStable ==
    pc = "done" =>
        \A i, j \in 1..Len(results) :
            i < j =>
                /\ results[i][2] >= results[j][2]
                /\ results[i][2] = results[j][2] =>
                      PosOf(results[i][1]) < PosOf(results[j][1])

C5_Witness ==
    /\ pc = "done"
    /\ Len(results) = 3
    /\ results[1][2] > results[2][2]
    /\ results[2][2] = results[3][2]
    /\ PosOf(results[1][1]) > PosOf(results[2][1])

\* C6: a second analyze() with the same limit over the same directory
\* returns the sequence the first one returned, on a new analyzer as well
\* as on the analyzer of the first run.
C6_SecondRunSame ==
    (pc = "done" /\ run = 2) => results = first_results

C6_Witness ==
    /\ pc = "done" /\ run = 2 /\ reuse
    /\ found_usage # <<>>
    /\ results # <<>>
    /\ results = first_results

----------------------------------------------------------------------------
(* Properties of the Python and PHP front ends *)

\* the tokens at which the lines of c start
LineStarts(c) ==
    {s \in 1..Len(c) : s = 1 \/ c[s - 1] = "\n"}

\* the names an import statement written on one line brings into scope:
\* every name listed by "from M import a, b", the last component of
\* "import M.a"
ImportedNames(line) ==
    LET k  == SkipBlanks(line, 1)
        im == NextIn({j \in 1..Len(line) : line[j] = "import"}, k)
    IN  IF TokIs(line, k, "from") /\ im # 0
        THEN {line[j] : j \in {j \in (im + 1)..Len(line) : IsWord(line[j])}}
        ELSE IF TokIs(line, k, "import")
        THEN {line[j] : j \in {j \in (k + 1)..Len(line) :
                                  /\ IsWord(line[j])
                                  /\ TokIs(line, j - 1, ".")
                                  /\ ~TokIs(line, j + 1, ".")}}
        ELSE {}

\* the file at position k of tree holds an import statement for name
ImportsName(k, name) ==
    \E s \in LineStarts(ReadFile(tree, k)) :
        name \in ImportedNames(LineAt(ReadFile(tree, k), s))

\* C7 (as claimed): Python, no limit: an element whose base name is imported,
\* in a from-import (as any of the listed names) or in a dotted-module
\* import, by a file other than its declaring file is absent from the
\* result.
C7_ImportedNeverReported ==
    (lang = "python" /\ pc = "done" /\ limit = 0 /\ run = 1) =>
        \A n \in 1..Len(elements) :
            (\E f \in 1..Len(AllFiles) :
                /\ PyModuleName(tree[AllFiles[f]].name)
                       # StrBefore(elements[n].name, "::")
                /\ ImportsName(AllFiles[f], elements[n].base_name))
            => elements[n].name \notin ResultNames

\* the tokens "static" of c that open the declaration of a static attribute
PhpStaticAttrIdx(c) ==
    {i \in 1..Len(c) :
        /\ c[i] = "static"
        /\ TokIs(c, SkipBlanks(c, i + 1), "$")
        /\ TokWord(c, SkipBlanks(c, i + 1) + 1)
        /\ TokIs(c, SkipBlanks(c, i + 1) + 2, ";")}

\* the number of places, in the files analyze() reads, at which $attr stands
\* outside its declaration
PhpAttrReferences(attr) ==
    Cardinality(UNION {
        {<<f, j>> : j \in {j \in 1..Len(ReadFile(tree, AllFiles[f])) :
            /\ LitAt(ReadFile(tree, AllFiles[f]), j, <<"$", attr>>)
            /\ ~TokIs(ReadFile(tree, AllFiles[f]),
                      SkipBlanksBack(ReadFile(tree, AllFiles[f]), j - 1),
                      "static")}} :
        f \in 1..Len(AllFiles)})

\* C8 (as claimed): PHP, no limit: a static attribute of a class of an
\* analysis file that is referenced nowhere is in the result as Class::$attr
\* with status "static attribute", and one that is referenced is not in the
\* result.
C8_StaticAttributeReported ==
    (lang = "php" /\ pc = "done" /\ limit = 0 /\ run = 1) =>
        \A f \in 1..Len(source_files) :
            LET c == ReadFile(tree, source_files[f])
            IN  \A i \in PhpStaticAttrIdx(c) :
                    LET attr == c[SkipBlanks(c, i + 1) + 1]
                        full == PhpFindClassName(c, i) \o "::$" \o attr
                    IN  IF PhpAttrReferences(attr) = 0
                        THEN \E j \in 1..Len(results) :
                                /\ results[j][1] = full
                                /\ results[j][4] = "static attribute"
                        ELSE full \notin ResultNames

\* the method names m such that c declares an interface listing m and a
\* class that implements this interface and provides m
PhpImplementedMethods(c) ==
    {c[PhpFuncNameIdx(c, i)] : i \in {i \in 1..Len(c) :
        /\ PhpFuncMatchAt(c, i)
        /\ PhpFindClassName(c, i) # NoClass
        /\ \E n \in 1..Len(PhpInterfaces(c, PhpFindClassName(c, i))) :
              PhpIsInterfaceMethod(c[PhpFuncNameIdx(c, i)],
                  PhpInterfaces(c, PhpFindClassName(c, i))[n], c)}}

\* m( stands somewhere in the files analyze() reads, outside a declaration
PhpCalledSomewhere(m) ==
    \E f \in 1..Len(AllFiles) :
        \E j \in 1..Len(ReadFile(tree, AllFiles[f])) :
            /\ LitAt(ReadFile(tree, AllFiles[f]), j, <<m, "(">>)
            /\ ~AfterFunctionKw(ReadFile(tree, AllFiles[f]), j)

\* C9 (as claimed): PHP: when a file declares an interface listing m and a
\* class implementing it that provides m, and m is called nowhere, the result
\* of analyze(), called without a limit as the test calls it, has no entry
\* for m.
C9_InterfaceMethodNotReported ==
    (lang = "php" /\ pc = "done" /\ limit = 0 /\ run = 1) =>
        \A f \in 1..Len(source_files) :
            \A m \in PhpImplementedMethods(ReadFile(tree, source_files[f])) :
                ~PhpCalledSomewhere(m) =>
                    \A j \in 1..Len(results) :
                        /\ results[j][1] # m
                        /\ ~StrEndsWith(results[j][1], "::" \o m)

\* the decorator lines stacked on the def whose line starts at token s:
\* the starts of the lines above it that begin with "@", without a gap
RECURSIVE DecoratorStackOf(_, _)
DecoratorStackOf(c, s) ==
    LET above == {p \in LineStarts(c) : p < s}
        p == CHOOSE q \in above : \A r \in above : r <= q
    IN  IF above # {} /\ TokIs(c, SkipBlanks(c, p), "@") /\ SkipBlanks(c, p) < s
        THEN {p} \cup DecoratorStackOf(c, p)
        ELSE {}

\* the line starting at token p is a decorator whose name contains
\* 'validator', whatever the case of the letters
IsValidatorLine(c, p) ==
    LET a == SkipBlanks(c, p)
    IN  /\ TokIs(c, a, "@") /\ TokWord(c, a + 1)
        /\ StrContains(StrLower(PyDecoratorName(c, a)), "validator")

\* the line starts of the defs of c, each with the name it declares
PyDefLines(c) ==
    {s \in LineStarts(c) : PyDefIdx(c, SkipBlanks(c, s)) # 0}

PyNameOfDefLine(c, s) == c[PyDefNameIdx(c, SkipBlanks(c, s))]

\* C10 (as claimed): Python: the map analyze_file_content returns for a file
\* has no key for a function with a decorator containing 'validator' at some
\* position of its stack, and has a key for each undecorated method of a
\* class.
C10_ValidatorExcluded ==
    (lang = "python" /\ pc = "resolving" /\ idx = 1 /\ run = 1) =>
        \A f \in 1..Len(source_files) :
            LET c == ReadFile(tree, source_files[f])
                m == PyAnalyzeFileContent(c, tree[source_files[f]].name)
            IN  \A s \in PyDefLines(c) :
                    /\ (\E p \in DecoratorStackOf(c, s) : IsValidatorLine(c, p))
                       => \A k \in 1..Len(m) :
                             m[k].base_name # PyNameOfDefLine(c, s)
                    /\ (DecoratorStackOf(c, s) = {}
                        /\ PyFindClassName(c, SkipBlanks(c, s)) # NoClass)
                       => \E k \in 1..Len(m) :
                             m[k].base_name = PyNameOfDefLine(c, s)

----------------------------------------------------------------------------
(* Properties of the Declaration Index *)

\* the analysis files, in the order of enumeration, whose extraction yields
\* the qualified name
FilesYielding(name) ==
    SelectSeq(source_files,
              LAMBDA k : ReadFile(tree, k) # <<>>
                         /\ HasKey(AnalyzeFileContent(ReadFile(tree, k), k), name))

\* the element that the extraction of the file at position k yields for name
ElementIn(k, name) ==
    LET m == AnalyzeFileContent(ReadFile(tree, k), k)
    IN  m[CHOOSE j \in 1..Len(m) : m[j].name = name]

\* C11 (as claimed): when COLLECTING ends, every entry of the index holds the
\* element (lines, status, type) extracted from the first enumerated analysis
\* file that yields its qualified name: a later file yielding the same name
\* does not change the entry.
C11_FirstWriterWins ==
    (pc = "resolving" /\ idx = 1 /\ run = 1) =>
        \A n \in 1..Len(elements) :
            LET fs == FilesYielding(elements[n].name)
            IN  fs # <<>> /\ elements[n] = ElementIn(fs[1], elements[n].name)

----------------------------------------------------------------------------
(* Properties of the declared-line count *)

\* the opening brace of the declaration matched at token i: the first "{"
\* after the "(" of the match, 0 when a ";" or a "}" comes before it or when
\* there is none
PhpOpenBraceIdx(c, i) ==
    LET p == PhpFuncParenIdx(c, i)
        o == NextIn({j \in (p + 1)..Len(c) : c[j] = "{"}, p + 1)
    IN  IF o # 0 /\ \A j \in (p + 1)..(o - 1) : c[j] \notin {";", "}"}
        THEN o ELSE 0

\* the nesting depth after token q, counted from the "{" at token o
PhpDepth(c, o, q) ==
    Cardinality({j \in o..q : c[j] = "{"}) - Cardinality({j \in o..q : c[j] = "}"})

\* the "}" at which the depth opened at token o returns to zero, 0 when none
PhpMatchingCloseIdx(c, o) ==
    NextIn({q \in (o + 1)..Len(c) : c[q] = "}" /\ PhpDepth(c, o, q) = 0}, o + 1)

\* the number of lines from the line of token o to the line of token q
LinesSpanned(c, o, q) == 1 + Cardinality({j \in o..q : c[j] = "\n"})

\* C12 (as claimed): PHP: for every declaration that is extracted and has a
\* body, the lines stored for it are the lines from the line of its opening
\* brace to the line of the matching closing brace, both included, whatever
\* stands between the parameter list and the opening brace.
C12_LinesAreBraceSpan ==
    (lang = "php" /\ pc = "resolving" /\ idx = 1 /\ run = 1) =>
        \A f \in 1..Len(source_files) :
            LET c == ReadFile(tree, source_files[f])
            IN  \A i \in {i \in 1..Len(c) : PhpFuncMatchAt(c, i)} :
                    LET o == PhpOpenBraceIdx(c, i)
                    IN  (/\ ~PhpSkipsDeclaration(c, i)
                         /\ o # 0 /\ PhpMatchingCloseIdx(c, o) # 0)
                        => PhpElement(c, i).lines
                               = LinesSpanned(c, o, PhpMatchingCloseIdx(c, o))

----------------------------------------------------------------------------
(* Properties of a file without content *)

\* read_file gives nothing for the file at position k of tree
NoContent(k) == ReadFile(tree, k) = <<>>

\* C13: a file whose reading yields no content adds no element to the index
\* in the first loop and no name to found_usage in the second; the step it
\* takes part in ends in the same loop at the next file; and no step of
\* analyze() leaves the three phases collecting, resolving, done.
C13_EmptyFileSkipped ==
    [][/\ (/\ pc = "collecting" /\ idx <= Len(source_files)
           /\ NoContent(source_files[idx]))
          => (elements' = elements /\ idx' = idx + 1 /\ pc' = pc)
       /\ (/\ pc = "resolving" /\ idx <= Len(AllFiles)
           /\ NoContent(AllFiles[idx])
           /\ ~EarlyExitTest(elements, found_usage, limit))
          => /\ found_usage' = found_usage
             /\ visited' = Append(visited, AllFiles[idx])
             /\ idx' = idx + 1 /\ pc' = pc
       /\ pc' \in {"collecting", "resolving", "done"}]_vars

\* a run without limit over a directory in which an analysis file without
\* content is followed by a file with content: all files were visited
C13_Witness ==
    /\ pc = "done" /\ limit = 0 /\ run = 1
    /\ \E i, j \in 1..Len(AllFiles) :
          /\ i < j /\ i <= Len(source_files)
          /\ NoContent(AllFiles[i]) /\ ~NoContent(AllFiles[j])
    /\ visited = AllFiles
    /\ elements # <<>> /\ found_usage # <<>> /\ results # <<>>

----------------------------------------------------------------------------
(* Properties of the second loop *)

\* C14: with a limit L a file is handed to the resolver only when more than
\* L elements are unresolved at that moment, the first file included, and
\* when at most L are unresolved before a file the run ends without
\* visiting it or any later file; the files visited are always the first
\* files of analysis files + test files, in that order, each once; without
\* a limit the run ends after visiting all of them.
C14_EarlyExitBeforeEachFile ==
    [][/\ (run' = run /\ visited' # visited)
          => /\ pc = "resolving"
             /\ limit = 0 \/ Len(Unresolved) > limit
             /\ visited' = Append(visited, AllFiles[Len(visited) + 1])
       /\ (/\ pc = "resolving" /\ limit > 0 /\ idx <= Len(AllFiles)
           /\ Len(Unresolved) <= limit)
          => (pc' = "done" /\ visited' = visited)
       /\ (pc = "resolving" /\ pc' = "done" /\ limit = 0)
          => visited' = AllFiles]_vars

\* the early exit taken after some files and before others
C14_Witness ==
    /\ pc = "done" /\ limit > 0 /\ run = 1
    /\ visited # <<>>
    /\ Len(visited) < Len(AllFiles)
    /\ Len(Unresolved) = limit

----------------------------------------------------------------------------
(* Properties of the worker pool *)

\* C15: whatever the order in which the tasks of a batch end, found_usage
\* changes only in the step of the coordinator that follows the return of
\* every task of the batch, and then only by gaining names at its end; and
\* while a batch is in progress its tasks are the elements unresolved in
\* found_usage as the previous file left it, which is also the list the
\* workers hold.
C15_OnlyCoordinatorWrites ==
    [][/\ found_usage' # found_usage
          => /\ pc = "waiting" /\ pc' = "resolving"
             /\ \A t \in 1..Len(tasks) : tasks[t].ret # "pending"
             /\ Len(found_usage') > Len(found_usage)
             /\ SubSeq(found_usage', 1, Len(found_usage)) = found_usage
       /\ pc' = "waiting"
          => /\ snapshot' = found_usage'
             /\ [t \in 1..Len(tasks') |-> tasks'[t].e]
                    = Remaining(elements', found_usage')
             /\ Len(visited') = idx' - 1]_vars

\* a batch of which a later task has returned a match before an earlier one
\* has returned
C15_Witness ==
    /\ pc = "waiting"
    /\ found_usage # <<>>
    /\ \E t, u \in 1..Len(tasks) :
          t < u /\ tasks[t].ret = "pending" /\ tasks[u].ret = "match"

\* C16 (as claimed): the result of check_usage for a file and an element is
\* the same whatever found_usage holds: with the found_usage of the analyzer
\* it is what it is with an empty found_usage.
C16_CheckUsageIgnoresFound ==
    \A k \in 1..Len(AllFiles) :
        \A n \in 1..Len(elements) :
            CheckUsage(found_usage, AllFiles[k], elements[n])
                = CheckUsage(<<>>, AllFiles[k], elements[n])

\* C17: in every state of the second loop of a run on a fresh analyzer,
\* found_usage holds no name twice and only keys of elements, so that
\* len(elements) - len(found_usage) is the number of unresolved elements.
C17_FoundAreDistinctKeys ==
    (pc = "resolving" /\ FreshRun) =>
        /\ \A i, j \in 1..Len(found_usage) :
              found_usage[i] = found_usage[j] => i = j
        /\ \A i \in 1..Len(found_usage) : HasKey(elements, found_usage[i])
        /\ Len(elements) - Len(found_usage) = Len(Unresolved)

C17_Witness ==
    /\ pc = "resolving" /\ run = 1
    /\ idx = Len(AllFiles)
    /\ Len(found_usage) >= 2
    /\ Len(Unresolved) >= 1
    /\ \E n \in 1..Len(elements) :
          InSeq(elements[n].name, found_usage)
          /\ CheckUsage(<<>>, AllFiles[idx], elements[n])

----------------------------------------------------------------------------
(* Properties of get_files *)

\* paths under which the same tree is scanned: the one of the runs above,
\* the one of the test fixtures, and one with a component containing "test"
ScanRoots ==
    {<<"srv", "app">>, <<"tests", "fixtures", "php">>, <<"home", "contest">>}

\* get_files of the subclass in use, for a scan root d
GetFilesUnder(d, for_analysis) ==
    IF lang = "php" THEN PhpGetFiles(d, tree, for_analysis)
    ELSE PyGetFiles(d, tree, for_analysis)

\* C18 (as claimed): the analysis files and the test files that get_files
\* returns for a tree are the same under every path of the scan root.
C18_PartitionIndependentOfRoot ==
    (pc = "collecting" /\ idx = 1 /\ run = 1) =>
        \A d \in ScanRoots :
            /\ GetFilesUnder(d, TRUE) = source_files
            /\ GetFilesUnder(d, FALSE) = test_files

====
